---- MODULE Spec2Model ----
(***************************************************************************)
(* A model of the SQLite MCP gateway: the stdio server                     *)
(* (sqlite_mcp_server.py) and the SSE server (sqlite_sse_mcp_server.py).   *)
(* Both scripts open one shared sqlite3 connection at import time, create  *)
(* a FastMCP instance, register get_table_schema, list_table_schemas and   *)
(* sql_query on it, and close the connection in the finally clause of the  *)
(* __main__ block.                                                         *)
(*                                                                         *)
(* Texts the code inspects character by character (the query text) are     *)
(* sequences of one-character strings.  Texts the code only concatenates   *)
(* or returns (messages, definitions, JSON output) are sequences of        *)
(* tokens.                                                                 *)
(***************************************************************************)
EXTENDS Integers, Sequences, FiniteSets, TLC

VARIABLES
    variant,       \* which script runs: "stdio" or "sse"
    launch,        \* "direct" (python script.py) or "uvicorn" (uvicorn module:app)
    pc,            \* the position of the process in the script
    connOpen,      \* the module-level conn exists and is open
    mcpCreated,    \* the FastMCP instance exists
    closeCount,    \* the number of conn.close() calls so far
    exit,          \* how the run loop ended: "none", "returned" or "raised"
    catalog,       \* sqlite_master, in rowid order
    rows,          \* the rows of table t, in rowid order
    schemaLoaded,  \* the connection holds a current copy of the schema
    last,          \* the call served by the latest step, and its outcome
    served,        \* some request has been served by this process
    sent,          \* the client texts handed to conn.execute by the latest call
    listed,        \* the latest list_table_schemas output, while the catalog is unchanged
    th,            \* the calls in progress on worker threads
    connErr        \* the error state of the connection (sqlite3_errmsg)

vars == <<variant, launch, pc, connOpen, mcpCreated, closeCount, exit,
          catalog, rows, schemaLoaded, last, served, sent, listed, th, connErr>>

\* The number of rows table t can hold in the initial database.
MaxRows == 2

-----------------------------------------------------------------------------
(* Python values returned by the handlers.                                 *)

PyStr(toks) == [py |-> "str", toks |-> toks]

PyNone == [py |-> "None", toks |-> <<>>]

(* A column value of sqlite_master.sql: NULL or a text.                    *)
SqlNull == [null |-> TRUE, toks |-> <<>>]

SqlText(toks) == [null |-> FALSE, toks |-> toks]

-----------------------------------------------------------------------------
(* str.strip, str.lower and str.startswith, on sequences of characters.    *)

IsSpace(c) == c \in {" ", "\t"}

LowerChar(c) ==
    CASE c = "S" -> "s"
      [] c = "E" -> "e"
      [] c = "L" -> "l"
      [] c = "C" -> "c"
      [] c = "T" -> "t"
      [] OTHER -> c

lower(s) == [i \in DOMAIN s |-> LowerChar(s[i])]

RECURSIVE lstrip(_)
lstrip(s) ==
    IF s # <<>> /\ IsSpace(Head(s)) THEN lstrip(Tail(s)) ELSE s

RECURSIVE rstrip(_)
rstrip(s) ==
    IF s # <<>> /\ IsSpace(s[Len(s)]) THEN rstrip(SubSeq(s, 1, Len(s) - 1)) ELSE s

strip(s) == rstrip(lstrip(s))

startswith(s, prefix) ==
    /\ Len(s) >= Len(prefix)
    /\ SubSeq(s, 1, Len(prefix)) = prefix

KW_SELECT == <<"s", "e", "l", "e", "c", "t">>

-----------------------------------------------------------------------------
(* The database behind the connection.  catalog is sqlite_master in rowid  *)
(* order; rows is the content of table t (columns a, b) in rowid order.    *)

TableNames == {"t", "u"}

LookupNames == {"t", "u", "w", "sqlite_autoindex_u_1", "zz"}

CreateSql(n) == SqlText(<<"CREATE TABLE ", n, IF n = "t" THEN "(a PRIMARY KEY, b)" ELSE "(n UNIQUE)">>)

ViewEntry == [type |-> "view", name |-> "w", sql |-> SqlText(<<"CREATE VIEW ", "w", " AS SELECT a FROM t">>)]

TableEntry(n) == [type |-> "table", name |-> n, sql |-> CreateSql(n)]

\* CREATE TABLE u(n UNIQUE) also adds the automatic index, whose sql is NULL.
AutoIndexEntry == [type |-> "index", name |-> "sqlite_autoindex_u_1", sql |-> SqlNull]

EntriesOf(n) == IF n = "u" THEN <<TableEntry(n), AutoIndexEntry>> ELSE <<TableEntry(n)>>

HasTable(cat, n) == \E i \in DOMAIN cat : cat[i].type = "table" /\ cat[i].name = n

\* sqlite3InitCallback: a table row of sqlite_master whose sql is NULL or
\* empty makes the schema load fail ("malformed database schema").
Malformed(cat) ==
    \E i \in DOMAIN cat : cat[i].type = "table" /\ (cat[i].sql.null \/ cat[i].sql.toks = <<>>)

VInt1 == [k |-> "int", tok |-> "1"]

VInt2 == [k |-> "int", tok |-> "2"]

VInt3 == [k |-> "int", tok |-> "3"]

VNull == [k |-> "null", tok |-> "null"]

VText == [k |-> "text", tok |-> "\"x\""]

VBlob == [k |-> "blob", tok |-> "bytes"]

RowPool == {<<VInt1, VNull>>, <<VInt2, VText>>, <<VInt3, VBlob>>}

\* Column a is the primary key of t: no two rows share it.
RowSeqs ==
    {r \in UNION {[1..n -> RowPool] : n \in 0..MaxRows} :
        \A i, j \in DOMAIN r : r[i][1] = r[j][1] => i = j}

Result(ok, err, cols, data, rws, loaded) ==
    [ok |-> ok, err |-> err, cols |-> cols, data |-> data, rows |-> rws, loaded |-> loaded]

\* The first step of every conn.execute: the connection (re)loads the schema
\* when its cached copy is stale, and fails when the catalog is malformed.
SchemaOk(cat, loaded) == loaded \/ ~Malformed(cat)

MalformedError(rws) ==
    Result(FALSE, "malformed database schema", <<>>, <<>>, rws, FALSE)

TableRowsOf(cat) == SelectSeq(cat, LAMBDA e : e.type = "table")

\* conn.execute("SELECT sql FROM sqlite_master WHERE type='table' AND name=?", (table,))
execute_schema_of(table, cat, rws, loaded) ==
    IF ~SchemaOk(cat, loaded) THEN MalformedError(rws)
    ELSE Result(TRUE, "", <<"sql">>,
                [i \in DOMAIN SelectSeq(TableRowsOf(cat), LAMBDA e : e.name = table) |->
                    <<SelectSeq(TableRowsOf(cat), LAMBDA e : e.name = table)[i].sql>>],
                rws, TRUE)

\* conn.execute("SELECT name, sql FROM sqlite_master WHERE type='table'")
execute_all_schemas(cat, rws, loaded) ==
    IF ~SchemaOk(cat, loaded) THEN MalformedError(rws)
    ELSE Result(TRUE, "", <<"name", "sql">>,
                [i \in DOMAIN TableRowsOf(cat) |-> <<TableRowsOf(cat)[i].name, TableRowsOf(cat)[i].sql>>],
                rws, TRUE)

(* The client statements the model knows, in the normal form the SQL       *)
(* parser sees: keywords and identifiers are case-insensitive and the      *)
(* surrounding whitespace is skipped.                                      *)

TailA == <<" ", "a", " ", "f", "r", "o", "m", " ", "t">>

TailAA == <<" ", "a", ",", " ", "a", " ", "f", "r", "o", "m", " ", "t">>

TailB == <<" ", "b", " ", "f", "r", "o", "m", " ", "t">>

TailStar == <<" ", "*", " ", "f", "r", "o", "m", " ", "t">>

TailZZ == <<" ", "a", " ", "f", "r", "o", "m", " ", "z", "z">>

TailMulti == <<" ", "a", " ", "f", "r", "o", "m", " ", "t", ";", " ", "d", "e", "l", "e", "t", "e", " ", "f", "r", "o", "m", " ", "t">>

TailFromT == <<" ", "f", "r", "o", "m", " ", "t">>

TailX == <<"x">>

HeadDelete == <<"d", "e", "l", "e", "t", "e">>

RECURSIVE FirstStatement(_)
FirstStatement(s) ==
    IF s = <<>> \/ Head(s) = ";" THEN <<>> ELSE <<Head(s)>> \o FirstStatement(Tail(s))

\* What follows the first statement's semicolon, without its whitespace.
RestAfterFirst(s) ==
    IF Len(FirstStatement(s)) = Len(s) THEN <<>>
    ELSE strip(SubSeq(s, Len(FirstStatement(s)) + 2, Len(s)))

Column(rws, c) == [i \in DOMAIN rws |-> <<rws[i][c]>>]

\* conn.execute(query) for a client-supplied text: sqlite3 prepares the first
\* statement, refuses a text holding a second one, and then runs it.
execute_query(text, cat, rws, loaded) ==
    LET stmt == lower(strip(FirstStatement(text)))
        sel(tail) == stmt = KW_SELECT \o tail
        onT == stmt \in {KW_SELECT \o TailA, KW_SELECT \o TailAA, KW_SELECT \o TailB,
                         KW_SELECT \o TailStar, HeadDelete \o TailFromT}
        err(m) == Result(FALSE, m, <<>>, <<>>, rws, TRUE)
    IN  IF ~SchemaOk(cat, loaded) THEN MalformedError(rws)
        ELSE IF stmt = KW_SELECT THEN err("incomplete input")
        ELSE IF sel(TailZZ) THEN err("no such table: zz")
        ELSE IF ~onT THEN err("syntax error")
        ELSE IF ~HasTable(cat, "t") THEN err("no such table: t")
        ELSE IF RestAfterFirst(text) # <<>>
            THEN err("You can only execute one statement at a time.")
        ELSE IF sel(TailA) THEN Result(TRUE, "", <<"a">>, Column(rws, 1), rws, TRUE)
        ELSE IF sel(TailAA)
            THEN Result(TRUE, "", <<"a", "a">>,
                        [i \in DOMAIN rws |-> <<rws[i][1], rws[i][1]>>], rws, TRUE)
        ELSE IF sel(TailB) THEN Result(TRUE, "", <<"b">>, Column(rws, 2), rws, TRUE)
        ELSE IF sel(TailStar) THEN Result(TRUE, "", <<"a", "b">>, rws, rws, TRUE)
        ELSE Result(TRUE, "", <<>>, <<>>, <<>>, TRUE)

-----------------------------------------------------------------------------
(* dict(row) and json.dumps(..., indent=2), the output as JSON tokens.     *)

\* dict(row): one item per distinct column name, at the position of its first
\* occurrence, holding row[name], the value of the first column of that name.
dict_of_row(cols, vals) ==
    LET keep == SelectSeq([i \in DOMAIN cols |-> i],
                          LAMBDA i : \A j \in 1..(i - 1) : cols[j] # cols[i])
    IN  [n \in DOMAIN keep |-> [key |-> cols[keep[n]], value |-> vals[keep[n]]]]

\* json.dumps raises TypeError on a bytes value.
JsonSerializable(v) == v.k # "blob"

RECURSIVE DumpsItems(_)
DumpsItems(d) ==
    IF d = <<>> THEN <<>>
    ELSE <<d[1].key, ":", d[1].value.tok>>
         \o (IF Len(d) > 1 THEN <<",">> ELSE <<>>) \o DumpsItems(Tail(d))

DumpsDict(d) == <<"{">> \o DumpsItems(d) \o <<"}">>

RECURSIVE DumpsElements(_)
DumpsElements(l) ==
    IF l = <<>> THEN <<>>
    ELSE DumpsDict(l[1]) \o (IF Len(l) > 1 THEN <<",">> ELSE <<>>) \o DumpsElements(Tail(l))

json_dumps_list(l) == <<"[">> \o DumpsElements(l) \o <<"]">>

ListSerializable(l) ==
    \A i \in DOMAIN l : \A n \in DOMAIN l[i] : JsonSerializable(l[i][n].value)

\* json.dumps of the name -> definition dict of list_table_schemas.
RECURSIVE DumpsSchemas(_)
DumpsSchemas(d) ==
    IF d = <<>> THEN <<>>
    ELSE <<d[1].key, ":", "\"">> \o d[1].value.toks \o <<"\"">>
         \o (IF Len(d) > 1 THEN <<",">> ELSE <<>>) \o DumpsSchemas(Tail(d))

json_dumps_schemas(d) == <<"{">> \o DumpsSchemas(d) \o <<"}">>

-----------------------------------------------------------------------------
(* The handlers.  Each returns what the call does: the value returned (or  *)
(* the exception left to the caller), the number of conn.execute calls,    *)
(* and the database and connection state after it.                         *)

Outcome(raised, value, execs, rws, loaded) ==
    [raised |-> raised, value |-> value, execs |-> execs, rows |-> rws, loaded |-> loaded]

NotFoundMessage(v, table) ==
    IF v = "stdio" THEN <<"Table '", table, "' not found in database.">>
    ELSE <<"Table '", table, "' not found.">>

\* except Exception as e: the error becomes the returned text.
schema_except(table, r) ==
    Outcome(FALSE, PyStr(<<"Error retrieving schema for table '", table, "': ", r.err>>),
            1, r.rows, r.loaded)

\* return schema_sql: row["sql"], which is None when the column is NULL.
schema_value(sql) == IF sql.null THEN PyNone ELSE PyStr(sql.toks)

get_table_schema(v, table, cat, rws, loaded) ==
    LET r == execute_schema_of(table, cat, rws, loaded)
    IN  IF ~r.ok THEN schema_except(table, r)
        ELSE IF r.data # <<>>
            THEN Outcome(FALSE, schema_value(r.data[1][1]), 1, r.rows, r.loaded)
        ELSE Outcome(FALSE, PyStr(NotFoundMessage(v, table)), 1, r.rows, r.loaded)

\* if row["sql"] is not None (stdio); if row["sql"] (SSE).
schema_kept(v, sql) ==
    IF v = "stdio" THEN ~sql.null ELSE ~sql.null /\ sql.toks # <<>>

\* A handler that answers from the schemas it read at startup.
list_table_schemas_cached(v, cat, rws, loaded) ==
    LET r == execute_all_schemas(<<ViewEntry>> \o EntriesOf("t"), rws, loaded)
        schemas == [i \in DOMAIN r.data |-> [key |-> r.data[i][1], value |-> r.data[i][2]]]
    IN  Outcome(FALSE, PyStr(json_dumps_schemas(schemas)), 1, rws, loaded)

list_table_schemas(v, cat, rws, loaded) ==
    LET r == execute_all_schemas(cat, rws, loaded)
        kept == SelectSeq(r.data, LAMBDA row : schema_kept(v, row[2]))
        schemas == [i \in DOMAIN kept |-> [key |-> kept[i][1], value |-> kept[i][2]]]
    IN  IF ~r.ok
        THEN Outcome(FALSE, PyStr(<<"Error retrieving table schemas: ", r.err>>),
                     1, r.rows, r.loaded)
        ELSE Outcome(FALSE, PyStr(json_dumps_schemas(schemas)), 1, r.rows, r.loaded)

\* A gate that compares one character too few.
gate_rejects_selec(query) ==
    ~startswith(lower(strip(query)), SubSeq(KW_SELECT, 1, Len(KW_SELECT) - 1))

\* A gate that logs the rejection and goes on.
gate_rejects_never(query) == FALSE

\* if not query.strip().lower().startswith("select")
gate_rejects(query) == ~startswith(lower(strip(query)), KW_SELECT)

\* A call that hands the normalised text to the store.
sql_query_sent_stripped(query) ==
    IF gate_rejects(query) THEN <<>> ELSE <<lower(strip(query))>>

\* cursor = conn.execute(query): the texts the call hands to conn.execute.
sql_query_sent(query) == IF gate_rejects(query) THEN <<>> ELSE <<query>>

RejectionMessage == <<"Error: Only SELECT queries are allowed.">>

\* A handler that lets the error out.
query_except_reraise(msg, r) == Outcome(TRUE, PyNone, 1, r.rows, r.loaded)

\* except Exception as e: the error becomes the returned text.
query_except(msg, r) ==
    Outcome(FALSE, PyStr(<<"Error executing query: ", msg>>), 1, r.rows, r.loaded)

sql_query(v, query, cat, rws, loaded) ==
    IF gate_rejects(query) THEN Outcome(FALSE, PyStr(RejectionMessage), 0, rws, loaded)
    ELSE LET r == execute_query(query, cat, rws, loaded)
             result_list == [i \in DOMAIN r.data |-> dict_of_row(r.cols, r.data[i])]
         IN  IF ~r.ok THEN query_except(r.err, r)
             ELSE IF ~ListSerializable(result_list)
                 THEN query_except("Object of type bytes is not JSON serializable", r)
             ELSE Outcome(FALSE, PyStr(json_dumps_list(result_list)), 1, r.rows, r.loaded)

-----------------------------------------------------------------------------
(* The inputs of the calls.                                                *)

HeadUpper == <<"S", "E", "L", "E", "C", "T">>

HeadSelec == <<"s", "e", "l", "e", "c">>

Tails == {<<>>, TailX, TailA, TailAA, TailB, TailStar, TailZZ, TailMulti, TailFromT}

Padded(q) == {<<" ">> \o q, <<"\t", " ">> \o q \o <<" ">>}

Queries ==
    {KW_SELECT \o t : t \in Tails}
    \cup {HeadUpper \o t : t \in {TailX, TailA, TailMulti}}
    \cup {HeadDelete \o TailFromT, HeadDelete, HeadSelec \o TailA}
    \cup Padded(KW_SELECT \o TailA) \cup Padded(HeadUpper \o TailStar)
    \cup Padded(HeadDelete \o TailFromT)

Definitions(n) == {SqlNull, SqlText(<<>>), CreateSql(n)}

-----------------------------------------------------------------------------
(* The process: module import, the run loop, the handlers, shutdown.       *)

NoCall == [op |-> "none", arg |-> <<>>, raised |-> FALSE, value |-> PyNone, execs |-> 0]

NoListing == [valid |-> FALSE, value |-> PyNone]

\* The worker threads a transport may run calls on.
MaxThreads == 2

Threads == 1..MaxThreads

NoResult == Result(FALSE, "", <<>>, <<>>, <<>>, FALSE)

Idle == [pc |-> "idle", op |-> "none", arg |-> <<>>, res |-> NoResult, reply |-> PyNone]

InitCatalogs == {<<ViewEntry>>, <<ViewEntry>> \o EntriesOf("t"),
                 <<ViewEntry>> \o EntriesOf("t") \o EntriesOf("u")}

Init ==
    /\ variant \in {"stdio", "sse"}
    /\ launch \in {"direct", "uvicorn"}
    /\ variant = "stdio" => launch = "direct"
    /\ pc = "start"
    /\ connOpen = FALSE
    /\ mcpCreated = FALSE
    /\ closeCount = 0
    /\ exit = "none"
    /\ catalog \in InitCatalogs
    /\ rows \in RowSeqs
    /\ HasTable(catalog, "t") \/ rows = <<>>
    /\ schemaLoaded = FALSE
    /\ last = NoCall
    /\ served = FALSE
    /\ sent = <<>>
    /\ listed = NoListing
    /\ th = [t \in Threads |-> Idle]
    /\ connErr = "not an error"

\* An except clause that logs and goes on.
after_connect_failure_swallowed == "connected"

\* except Exception as e: logger.exception(...); raise
after_connect_failure == "crashed"

\* try: conn = sqlite3.connect(DB_PATH, check_same_thread=False) ...
Connect ==
    /\ pc = "start"
    /\ \E ok \in BOOLEAN :
        IF ok THEN connOpen' = TRUE /\ pc' = "connected"
        ELSE connOpen' = FALSE /\ pc' = after_connect_failure
    /\ UNCHANGED <<sent, listed, th, connErr>>
    /\ UNCHANGED <<variant, launch, mcpCreated, closeCount, exit, catalog, rows,
                   schemaLoaded, last, served>>

\* mcp = FastMCP(...), the decorators, and (SSE) app = mcp.sse_app()
CreateServer ==
    /\ pc = "connected"
    /\ mcpCreated' = TRUE
    /\ pc' = "registered"
    /\ UNCHANGED <<sent, listed, th, connErr>>
    /\ UNCHANGED <<variant, launch, connOpen, closeCount, exit, catalog, rows,
                   schemaLoaded, last, served>>

\* mcp.run() / uvicorn.run(app, ...) in the __main__ block, or uvicorn serving
\* the imported module's app.
StartRun ==
    /\ pc = "registered"
    /\ pc' = "serving"
    /\ UNCHANGED <<sent, listed, th, connErr>>
    /\ UNCHANGED <<variant, launch, connOpen, mcpCreated, closeCount, exit, catalog,
                   rows, schemaLoaded, last, served>>

Serve(op, arg, o) ==
    /\ last' = [op |-> op, arg |-> arg, raised |-> o.raised, value |-> o.value,
                execs |-> o.execs]
    /\ rows' = o.rows
    /\ schemaLoaded' = o.loaded
    /\ served' = TRUE
    /\ sent' = (IF op = "sql_query" THEN sql_query_sent(arg) ELSE <<>>)
    /\ listed' = (IF op = "list_table_schemas" THEN [valid |-> TRUE, value |-> o.value]
                  ELSE listed)
    /\ UNCHANGED <<th, connErr>>
    /\ UNCHANGED <<variant, launch, pc, connOpen, mcpCreated, closeCount, exit, catalog>>

GetTableSchema ==
    /\ pc = "serving"
    /\ \E table \in LookupNames :
        Serve("get_table_schema", <<table>>,
              get_table_schema(variant, table, catalog, rows, schemaLoaded))

ListTableSchemas ==
    /\ pc = "serving"
    /\ Serve("list_table_schemas", <<>>,
             list_table_schemas(variant, catalog, rows, schemaLoaded))

SqlQuery ==
    /\ pc = "serving"
    /\ \E query \in Queries :
        Serve("sql_query", query, sql_query(variant, query, catalog, rows, schemaLoaded))

\* The finally clause of the __main__ block runs conn.close(); the block is
\* skipped when the module is imported by uvicorn.
closes_on_exit(l) == IF l = "direct" THEN 1 ELSE 0

RunEnds ==
    /\ pc = "serving"
    /\ \E how \in {"returned", "raised"} : exit' = how
    /\ closeCount' = closeCount + closes_on_exit(launch)
    /\ connOpen' = (connOpen /\ closes_on_exit(launch) = 0)
    /\ pc' = "terminated"
    /\ last' = NoCall
    /\ sent' = <<>>
    /\ listed' = NoListing
    /\ UNCHANGED <<th, connErr>>
    /\ UNCHANGED <<variant, launch, mcpCreated, catalog, rows, schemaLoaded, served>>

(* Another process writing the database file while the server runs.        *)

ReplaceSql(cat, n, d) ==
    [i \in DOMAIN cat |->
        IF cat[i].type = "table" /\ cat[i].name = n THEN [cat[i] EXCEPT !.sql = d] ELSE cat[i]]

\* DROP TABLE n removes the table's row and its automatic index.
BelongsTo(e, n) ==
    \/ e.type = "table" /\ e.name = n
    \/ e.type = "index" /\ n = "u"

\* UPDATE sqlite_master SET sql = ... under PRAGMA writable_schema: the schema
\* cookie is not changed, so open connections keep their copy of the schema.
ExtSetDefinition ==
    /\ pc = "serving"
    /\ \E n \in TableNames : \E d \in Definitions(n) :
        /\ HasTable(catalog, n)
        /\ catalog' = ReplaceSql(catalog, n, d)
        /\ catalog' # catalog
    /\ last' = NoCall
    /\ sent' = <<>>
    /\ listed' = NoListing
    /\ UNCHANGED <<th, connErr>>
    /\ UNCHANGED <<variant, launch, pc, connOpen, mcpCreated, closeCount, exit, rows,
                   schemaLoaded, served>>

ExtCreateTable ==
    /\ pc = "serving"
    /\ \E n \in TableNames :
        /\ ~HasTable(catalog, n)
        /\ catalog' = catalog \o EntriesOf(n)
    /\ schemaLoaded' = FALSE
    /\ last' = NoCall
    /\ sent' = <<>>
    /\ listed' = NoListing
    /\ UNCHANGED <<th, connErr>>
    /\ UNCHANGED <<variant, launch, pc, connOpen, mcpCreated, closeCount, exit, rows,
                   served>>

ExtDropTable ==
    /\ pc = "serving"
    /\ \E n \in TableNames :
        /\ HasTable(catalog, n)
        /\ catalog' = SelectSeq(catalog, LAMBDA e : ~BelongsTo(e, n))
        /\ rows' = IF n = "t" THEN <<>> ELSE rows
    /\ schemaLoaded' = FALSE
    /\ last' = NoCall
    /\ sent' = <<>>
    /\ listed' = NoListing
    /\ UNCHANGED <<th, connErr>>
    /\ UNCHANGED <<variant, launch, pc, connOpen, mcpCreated, closeCount, exit, served>>

Next ==
    \/ Connect
    \/ CreateServer
    \/ StartRun
    \/ GetTableSchema
    \/ ListTableSchemas
    \/ SqlQuery
    \/ RunEnds
    \/ ExtSetDefinition
    \/ ExtCreateTable
    \/ ExtDropTable

Spec == Init /\ [][Next]_vars

-----------------------------------------------------------------------------
(* Calls running concurrently on worker threads over the one shared        *)
(* connection (check_same_thread=False, no lock around execute).  Each     *)
(* call has its own cursor; the connection's error state is shared: every  *)
(* sqlite call on the connection overwrites it, and a failed conn.execute  *)
(* reads it only after the interpreter lock is taken again.                *)

ConcQueries == {KW_SELECT \o TailA, KW_SELECT \o TailB, KW_SELECT \o TailZZ,
                HeadUpper \o TailX, HeadDelete \o TailFromT}

ConcCalls ==
    {[op |-> "sql_query", arg |-> q] : q \in ConcQueries}
    \cup {[op |-> "get_table_schema", arg |-> <<n>>] : n \in {"t", "zz"}}
    \cup {[op |-> "list_table_schemas", arg |-> <<>>]}

ConcInit ==
    /\ variant \in {"stdio", "sse"}
    /\ launch = "direct"
    /\ pc = "serving"
    /\ connOpen = TRUE
    /\ mcpCreated = TRUE
    /\ closeCount = 0
    /\ exit = "none"
    /\ catalog \in {<<ViewEntry>>, <<ViewEntry>> \o EntriesOf("t")}
    /\ rows \in {r \in RowSeqs : Len(r) <= 1}
    /\ HasTable(catalog, "t") \/ rows = <<>>
    /\ schemaLoaded = FALSE
    /\ last = NoCall
    /\ served = FALSE
    /\ sent = <<>>
    /\ listed = NoListing
    /\ th = [t \in Threads |-> Idle]
    /\ connErr = "not an error"

\* The statement a call hands to conn.execute.
StoreCall(op, arg, cat, rws, loaded) ==
    IF op = "sql_query" THEN execute_query(arg, cat, rws, loaded)
    ELSE IF op = "get_table_schema" THEN execute_schema_of(arg[1], cat, rws, loaded)
    ELSE execute_all_schemas(cat, rws, loaded)

\* The error state sqlite leaves on the connection after a successful step.
StepStatus(r) ==
    IF r.data = <<>> THEN "no more rows available" ELSE "another row available"

\* The text of the exception conn.execute raises, built from the connection's
\* error state at the moment it is read.
ErrorRead(e) ==
    IF e = "not an error"
    THEN {"not an error", "returned NULL without setting an exception"}
    ELSE {e}

\* except Exception as e: the returned text of each handler.
ErrorReply(op, arg, msg) ==
    IF op = "sql_query" THEN PyStr(<<"Error executing query: ", msg>>)
    ELSE IF op = "get_table_schema"
        THEN PyStr(<<"Error retrieving schema for table '", arg[1], "': ", msg>>)
    ELSE PyStr(<<"Error retrieving table schemas: ", msg>>)

\* What each handler returns from the rows of its own cursor.
CursorReply(v, op, arg, r) ==
    IF op = "sql_query"
    THEN LET result_list == [i \in DOMAIN r.data |-> dict_of_row(r.cols, r.data[i])]
         IN  IF ListSerializable(result_list) THEN PyStr(json_dumps_list(result_list))
             ELSE PyStr(<<"Error executing query: ",
                          "Object of type bytes is not JSON serializable">>)
    ELSE IF op = "get_table_schema"
        THEN IF r.data # <<>> THEN schema_value(r.data[1][1])
             ELSE PyStr(NotFoundMessage(v, arg[1]))
    ELSE LET kept == SelectSeq(r.data, LAMBDA row : schema_kept(v, row[2]))
         IN  PyStr(json_dumps_schemas(
                 [i \in DOMAIN kept |-> [key |-> kept[i][1], value |-> kept[i][2]]]))

\* A request arrives on thread t; sql_query applies the gate first.
ThreadCall(t) ==
    /\ th[t].pc = "idle"
    /\ \E c \in ConcCalls :
        th' = [th EXCEPT ![t] =
                 IF c.op = "sql_query" /\ gate_rejects(c.arg)
                 THEN [Idle EXCEPT !.pc = "done", !.op = c.op, !.arg = c.arg,
                                   !.reply = PyStr(RejectionMessage)]
                 ELSE [Idle EXCEPT !.pc = "execute", !.op = c.op, !.arg = c.arg]]
    /\ served' = TRUE
    /\ UNCHANGED <<variant, launch, pc, connOpen, mcpCreated, closeCount, exit, catalog,
                   rows, schemaLoaded, last, sent, listed, connErr>>

\* cursor = conn.execute(...): the sqlite call, with the interpreter lock released.
ThreadExecute(t) ==
    /\ th[t].pc = "execute"
    /\ LET r == StoreCall(th[t].op, th[t].arg, catalog, rows, schemaLoaded)
       IN  /\ th' = [th EXCEPT ![t].res = r,
                               ![t].pc = IF r.ok THEN "fetch" ELSE "except"]
           /\ connErr' = (IF r.ok THEN StepStatus(r) ELSE r.err)
           /\ rows' = r.rows
           /\ schemaLoaded' = r.loaded
    /\ UNCHANGED <<variant, launch, pc, connOpen, mcpCreated, closeCount, exit, catalog,
                   last, served, sent, listed>>

\* cursor.fetchall() / fetchone(), the conversion of the rows, and the return.
ThreadFetch(t) ==
    /\ th[t].pc = "fetch"
    /\ th' = [th EXCEPT ![t].pc = "done",
                        ![t].reply = CursorReply(variant, th[t].op, th[t].arg, th[t].res)]
    /\ connErr' = "no more rows available"
    /\ UNCHANGED <<variant, launch, pc, connOpen, mcpCreated, closeCount, exit, catalog,
                   rows, schemaLoaded, last, served, sent, listed>>

\* The failed conn.execute raises with the connection's current error state,
\* and the except clause returns it as text.
ThreadExcept(t) ==
    /\ th[t].pc = "except"
    /\ \E msg \in ErrorRead(connErr) :
        th' = [th EXCEPT ![t].pc = "done",
                         ![t].reply = ErrorReply(th[t].op, th[t].arg, msg)]
    /\ UNCHANGED <<variant, launch, pc, connOpen, mcpCreated, closeCount, exit, catalog,
                   rows, schemaLoaded, last, served, sent, listed, connErr>>

\* The reply has gone to the transport; the thread takes the next request.
ThreadReturn(t) ==
    /\ th[t].pc = "done"
    /\ th' = [th EXCEPT ![t] = Idle]
    /\ UNCHANGED <<variant, launch, pc, connOpen, mcpCreated, closeCount, exit, catalog,
                   rows, schemaLoaded, last, served, sent, listed, connErr>>

ConcNext ==
    \E t \in Threads :
        \/ ThreadCall(t)
        \/ ThreadExecute(t)
        \/ ThreadFetch(t)
        \/ ThreadExcept(t)
        \/ ThreadReturn(t)

SpecConc == ConcInit /\ [][ConcNext]_vars

-----------------------------------------------------------------------------
(* Reading a returned text back as JSON.                                   *)

Positions(toks, t) == SelectSeq([i \in DOMAIN toks |-> i], LAMBDA i : toks[i] = t)

IsJsonArray(v) ==
    /\ v.py = "str"
    /\ v.toks # <<>>
    /\ Head(v.toks) = "["
    /\ v.toks[Len(v.toks)] = "]"

IsJsonObject(v) ==
    /\ v.py = "str"
    /\ v.toks # <<>>
    /\ Head(v.toks) = "{"
    /\ v.toks[Len(v.toks)] = "}"

\* The objects of a JSON array of flat objects, each as its tokens.
JsonElements(toks) ==
    [k \in DOMAIN Positions(toks, "{") |->
        SubSeq(toks, Positions(toks, "{")[k] + 1, Positions(toks, "}")[k] - 1)]

\* The keys of a flat JSON object, in order.
JsonKeys(obj) == [n \in DOMAIN Positions(obj, ":") |-> obj[Positions(obj, ":")[n] - 1]]

\* The string value under a key of the object list_table_schemas returns.
JsonStringAt(toks, key) ==
    LET start == CHOOSE i \in DOMAIN toks : toks[i] = key /\ toks[i + 1] = ":"
        stop == CHOOSE j \in DOMAIN toks :
                    /\ j > start + 2
                    /\ toks[j] = "\""
                    /\ \A m \in (start + 3)..(j - 1) : toks[m] # "\""
    IN  SubSeq(toks, start + 3, stop - 1)

SeqToSet(q) == {q[i] : i \in DOMAIN q}

\* What the store answers to the statement of the call just served.
StoreAnswer == execute_query(last.arg, catalog, rows, schemaLoaded)

Accepted(q) == startswith(lower(strip(q)), KW_SELECT)

\* The catalog lookup of the call just served was answered by the store.
LookupAnswered == SchemaOk(catalog, schemaLoaded)

TableDefinition(n) ==
    LET i == CHOOSE j \in DOMAIN catalog : catalog[j].type = "table" /\ catalog[j].name = n
    IN  catalog[i].sql

-----------------------------------------------------------------------------
(* The claims.                                                             *)

\* C1: a query whose trimmed, lower-cased text does not start with "select"
\* gets exactly the fixed rejection message as a normal return value, and
\* conn.execute is not called during that call.
C1_RejectedQueryGetsFixedMessage ==
    (last.op = "sql_query" /\ ~Accepted(last.arg)) =>
        /\ ~last.raised
        /\ last.value = PyStr(<<"Error: Only SELECT queries are allowed.">>)
        /\ last.execs = 0

C1_Witness ==
    /\ last.op = "sql_query"
    /\ last.arg = HeadSelec \o TailA
    /\ last.value = PyStr(RejectionMessage)
    /\ last.execs = 0

\* C2: for an accepted query the store executes, the output read back as JSON
\* is an array with one object per row the store returns, and the keys of every
\* object are the query's output column names, in order, one per column.
C2_OneObjectPerRowOneKeyPerColumn ==
    (last.op = "sql_query" /\ Accepted(last.arg) /\ StoreAnswer.ok) =>
        /\ IsJsonArray(last.value)
        /\ Len(JsonElements(last.value.toks)) = Len(StoreAnswer.data)
        /\ \A i \in DOMAIN JsonElements(last.value.toks) :
              JsonKeys(JsonElements(last.value.toks)[i]) = StoreAnswer.cols

\* C3: a sql_query call, accepted or rejected, leaves the rows of every table
\* and the catalog as they were.
C3_QueryToolIsReadOnly ==
    [][last'.op = "sql_query" => (rows' = rows /\ catalog' = catalog)]_vars

C3_Witness ==
    /\ last.op = "sql_query"
    /\ last.arg \in Padded(HeadDelete \o TailFromT)
    /\ Len(rows) >= 1

\* C4: no call leaves an exception to the transport; when the store rejects
\* the statement of an accepted query, sql_query returns "Error executing
\* query: " followed by the store's message, and the process keeps serving.
C4_ErrorsBecomeText ==
    /\ ~last.raised
    /\ last.op # "none" => pc = "serving"
    /\ (last.op = "sql_query" /\ Accepted(last.arg) /\ ~StoreAnswer.ok) =>
          last.value = PyStr(<<"Error executing query: ", StoreAnswer.err>>)

C4_Witness ==
    /\ last.op = "sql_query"
    /\ last.arg = KW_SELECT \o TailZZ
    /\ last.value = PyStr(<<"Error executing query: ", "no such table: zz">>)
    /\ pc = "serving"

\* C5: when the store answers the lookup, get_table_schema returns a text with
\* the table name and "not found" if no table entry has exactly that name, and
\* the entry's definition text if one has.
C5_NotFoundOrDefinitionText ==
    (last.op = "get_table_schema" /\ LookupAnswered) =>
        /\ ~last.raised
        /\ last.value.py = "str"
        /\ IF HasTable(catalog, last.arg[1])
           THEN last.value.toks = TableDefinition(last.arg[1]).toks
           ELSE /\ last.arg[1] \in SeqToSet(last.value.toks)
                /\ \E t \in SeqToSet(last.value.toks) :
                      t \in {"' not found in database.", "' not found."}

\* C6: when the store answers the lookup, the output of list_table_schemas
\* reads back as a JSON object whose keys are exactly the table entries with a
\* non-null definition, each mapped to its definition text.
C6_KeysAreTablesWithNonNullDefinition ==
    (last.op = "list_table_schemas" /\ LookupAnswered) =>
        /\ IsJsonObject(last.value)
        /\ SeqToSet(JsonKeys(last.value.toks)) =
              {n \in TableNames : HasTable(catalog, n) /\ ~TableDefinition(n).null}
        /\ \A n \in SeqToSet(JsonKeys(last.value.toks)) :
              JsonStringAt(last.value.toks, n) = TableDefinition(n).toks

\* C7: every output is a text; get_table_schema for a table entry whose
\* definition is NULL returns a text that is not the not-found message.
C7_EveryOutputIsText ==
    last.op # "none" =>
        /\ last.value.py = "str"
        /\ (/\ last.op = "get_table_schema"
            /\ LookupAnswered
            /\ HasTable(catalog, last.arg[1])
            /\ TableDefinition(last.arg[1]).null)
           => last.value.toks # NotFoundMessage(variant, last.arg[1])

\* C8: for every accepted query the store executes, sql_query returns the JSON
\* array of rows, whatever the storage kinds of the values (blobs included).
C8_SerializationNeverFails ==
    (last.op = "sql_query" /\ Accepted(last.arg) /\ StoreAnswer.ok) =>
        /\ IsJsonArray(last.value)
        /\ Len(JsonElements(last.value.toks)) = Len(StoreAnswer.data)

\* C9: when the initial connection cannot be established the process stops at
\* the re-raised exception: no server instance is created and no request is
\* ever served.
C9_ConnectFailureIsFatal ==
    (pc # "start" /\ ~connOpen /\ closeCount = 0) =>
        /\ pc = "crashed"
        /\ ~mcpCreated
        /\ ~served
        /\ last = NoCall

C9_Witness == pc = "crashed" /\ ~connOpen /\ ~mcpCreated

\* C10: whenever the server process has terminated in an orderly way, however
\* it was launched and however the run loop ended, conn.close() has been called
\* exactly once.
C10_ClosedExactlyOnceOnTermination ==
    pc = "terminated" => closeCount = 1

\* The reply the same call gets when it runs alone on the same database.
AloneReply(op, arg) ==
    IF op = "sql_query" THEN sql_query(variant, arg, catalog, rows, schemaLoaded).value
    ELSE IF op = "get_table_schema"
        THEN get_table_schema(variant, arg[1], catalog, rows, schemaLoaded).value
    ELSE list_table_schemas(variant, catalog, rows, schemaLoaded).value

\* C11: whatever the interleaving of the concurrent calls on the shared
\* connection, every call returns the reply it would get if it ran alone on the
\* same database state.
C11_ConcurrentCallsGetTheirOwnReply ==
    \A t \in Threads :
        th[t].pc = "done" => th[t].reply = AloneReply(th[t].op, th[t].arg)

\* C12: the gate accepts a query exactly when its trimmed, lower-cased text
\* starts with "select"; an accepted query is handed to conn.execute once per
\* call, as the client wrote it, also when the store fails; a rejected one never.
C12_PrefixGateExecutesOriginalOnce ==
    last.op = "sql_query" =>
        /\ Accepted(last.arg) <=> last.value # PyStr(<<"Error: Only SELECT queries are allowed.">>)
        /\ last.execs = (IF Accepted(last.arg) THEN 1 ELSE 0)
        /\ sent = (IF Accepted(last.arg) THEN <<last.arg>> ELSE <<>>)

C12_Witness ==
    /\ last.op = "sql_query"
    /\ last.arg = HeadUpper \o TailX
    /\ sent = <<HeadUpper \o TailX>>
    /\ last.execs = 1
    /\ last.value = PyStr(<<"Error executing query: ", "syntax error">>)

\* The reply of a connection that reads the present catalog for the first time.
FreshReply(op, arg) ==
    IF op = "get_table_schema"
    THEN get_table_schema(variant, arg[1], catalog, rows, FALSE).value
    ELSE list_table_schemas(variant, catalog, rows, FALSE).value

CatalogListing(cat) ==
    PyStr(json_dumps_schemas(
        [i \in DOMAIN TableRowsOf(cat) |->
            [key |-> TableRowsOf(cat)[i].name, value |-> TableRowsOf(cat)[i].sql]]))

Branch(v) ==
    IF v.py = "str" /\ v.toks # <<>> /\ Head(v.toks) = "Error retrieving schema for table '"
    THEN "error"
    ELSE IF v.py = "str" /\ v.toks # <<>> /\ Head(v.toks) = "Table '" THEN "not found"
    ELSE "definition"

\* C14: on every database state and input, sql_query and list_table_schemas of
\* the stdio server return the same text as those of the SSE server, and
\* get_table_schema takes the same branch in both.
C14_VariantsAgree ==
    pc = "serving" =>
        /\ \A q \in Queries :
              sql_query("stdio", q, catalog, rows, schemaLoaded).value
                  = sql_query("sse", q, catalog, rows, schemaLoaded).value
        /\ list_table_schemas("stdio", catalog, rows, schemaLoaded).value
              = list_table_schemas("sse", catalog, rows, schemaLoaded).value
        /\ \A n \in LookupNames :
              Branch(get_table_schema("stdio", n, catalog, rows, schemaLoaded).value)
                  = Branch(get_table_schema("sse", n, catalog, rows, schemaLoaded).value)

====
